---------------------------- MODULE Spec2Model ----------------------------
(***************************************************************************)
(* Model of redash/query_runner/snowflake_keypair_env.py: the query runner *)
(* SnowflakeKeyPairEnv (key-pair authentication, key read from an          *)
(* environment variable).                                                  *)
(*                                                                         *)
(* Python values are tagged records: None, PyStr(s), PyInt(n), PyBool(b),  *)
(* PyBytes(b).  A Python str is a sequence of text fragments: "" is <<>>,  *)
(* concatenation is \o; type tags and identifiers are spelled one          *)
(* character per fragment so that upper() and "{}.{}".format() work on     *)
(* characters.  A handler is an operator from its inputs and the driver's  *)
(* behaviour during the call (which step raises, what the cursor yields)   *)
(* to the call's outcome: what it returned or raised, the driver calls it  *)
(* made, the log records it emitted, and the handles it left behind.       *)
(***************************************************************************)
EXTENDS Integers, Sequences, FiniteSets, TLC

VARIABLES
    configuration,  \* self.configuration, fixed at construction
    environ,        \* os.environ
    pc,             \* "idle" | "done": no call in progress | a call has finished
    call,           \* the finished call: [name, args]
    outcome,        \* [kind |-> "returned" | "raised", value, exc]
    trace,          \* the steps the call took, in order: [op, ok, arg]
    log,            \* the log records the call emitted, in order
    conn,           \* driver connection: "none" | "open" | "closed"
    cursor,         \* driver cursor:     "none" | "open" | "closed"
    dt_in,          \* determine_type's arguments: [data_type, scale]
    dt_out          \* determine_type's result

vars == <<configuration, environ, pc, call, outcome, trace, log, conn, cursor,
          dt_in, dt_out>>

----------------------------------------------------------------------------
(* Bounds *)

MaxRows == 3

MaxScale == 2

MaxTypeCode == 14

----------------------------------------------------------------------------
(* Python values *)

None == [t |-> "none"]

PyStr(s) == [t |-> "str", v |-> s]

PyInt(n) == [t |-> "int", v |-> n]

PyBool(b) == [t |-> "bool", v |-> b]

PyFloat(s) == [t |-> "float", v |-> s]

PyBytes(b) == [t |-> "bytes", v |-> b]

PyList(l) == [t |-> "list", v |-> l]

PyDict(d) == [t |-> "dict", v |-> d]

PyTuple(s) == [t |-> "tuple", v |-> s]

\* bool(x), as the code's `if x` / `not x` / `x and ...` use it
Truthy(x) ==
    CASE x.t = "none" -> FALSE
      [] x.t = "str" -> x.v # <<>>
      [] x.t = "int" -> x.v # 0
      [] x.t = "bool" -> x.v
      [] OTHER -> TRUE

\* isinstance(x, int): bool is a subclass of int
IsInstanceInt(x) == x.t \in {"int", "bool"}

IsInstanceStr(x) == x.t = "str"

\* the integer an int (or bool) stands for: True == 1, False == 0
IntValue(x) == IF x.t = "bool" THEN (IF x.v THEN 1 ELSE 0) ELSE x.v

SeqsUpTo(S, n) == UNION {[1..k -> S] : k \in 0..n}

\* the element of a one-element set: Only({e : x \in {v}}) is e with x naming v
Only(set) == CHOOSE x \in set : TRUE

\* str.encode()
Encode(s) == PyBytes(s.v)

UpperChar(c) ==
    CASE c = "a" -> "A" [] c = "b" -> "B" [] c = "c" -> "C" [] c = "d" -> "D"
      [] c = "e" -> "E" [] c = "f" -> "F" [] c = "g" -> "G" [] c = "h" -> "H"
      [] c = "i" -> "I" [] c = "j" -> "J" [] c = "k" -> "K" [] c = "l" -> "L"
      [] c = "m" -> "M" [] c = "n" -> "N" [] c = "o" -> "O" [] c = "p" -> "P"
      [] c = "q" -> "Q" [] c = "r" -> "R" [] c = "s" -> "S" [] c = "t" -> "T"
      [] c = "u" -> "U" [] c = "v" -> "V" [] c = "w" -> "W" [] c = "x" -> "X"
      [] c = "y" -> "Y" [] c = "z" -> "Z"
      [] OTHER -> c

\* str.upper()
Upper(s) == PyStr([i \in 1..Len(s.v) |-> UpperChar(s.v[i])])

\* "{}.{}".format(a, b)
FormatDotted(a, b) == PyStr(a.v \o <<".">> \o b.v)

----------------------------------------------------------------------------
(* Generic column types and the two lookup tables *)

TYPE_STRING == PyStr(<<"string">>)

TYPE_BOOLEAN == PyStr(<<"boolean">>)

TYPE_DATETIME == PyStr(<<"datetime">>)

TYPE_INTEGER == PyStr(<<"integer">>)

TYPE_FLOAT == PyStr(<<"float">>)

TYPE_DATE == PyStr(<<"date">>)

GenericTypes ==
    {TYPE_STRING, TYPE_BOOLEAN, TYPE_DATE, TYPE_DATETIME, TYPE_INTEGER, TYPE_FLOAT}

\* a dict as a set of <<key, value>> pairs with distinct keys
TYPES_MAP ==
    { <<PyStr(<<"T","E","X","T">>), TYPE_STRING>>,
      <<PyStr(<<"B","O","O","L","E","A","N">>), TYPE_BOOLEAN>>,
      <<PyStr(<<"D","A","T","E">>), TYPE_DATE>>,
      <<PyStr(<<"T","I","M","E","S","T","A","M","P">>), TYPE_DATETIME>>,
      <<PyStr(<<"T","I","M","E","S","T","A","M","P","_","L","T","Z">>), TYPE_DATETIME>>,
      <<PyStr(<<"T","I","M","E","S","T","A","M","P","_","T","Z">>), TYPE_DATETIME>>,
      <<PyStr(<<"T","I","M","E","S","T","A","M","P","_","N","T","Z">>), TYPE_DATETIME>>,
      <<PyStr(<<"N","U","M","B","E","R">>), TYPE_FLOAT>>,
      <<PyStr(<<"F","L","O","A","T">>), TYPE_FLOAT>>,
      <<PyStr(<<"R","E","A","L">>), TYPE_FLOAT>>,
      <<PyStr(<<"D","O","U","B","L","E">>), TYPE_FLOAT>>,
      <<PyStr(<<"I","N","T">>), TYPE_INTEGER>>,
      <<PyStr(<<"I","N","T","E","G","E","R">>), TYPE_INTEGER>> }

NUMERIC_TYPES_MAP ==
    { <<PyInt(0), TYPE_INTEGER>>,
      <<PyInt(1), TYPE_FLOAT>>,
      <<PyInt(2), TYPE_STRING>>,
      <<PyInt(3), TYPE_DATE>>,
      <<PyInt(4), TYPE_DATETIME>>,
      <<PyInt(5), TYPE_STRING>>,
      <<PyInt(6), TYPE_DATETIME>>,
      <<PyInt(7), TYPE_DATETIME>>,
      <<PyInt(8), TYPE_DATETIME>>,
      <<PyInt(13), TYPE_BOOLEAN>> }

\* Python's key equality: an int (or bool) equals an int key of the same value, a
\* str equals a str key of the same text, and nothing else is equal
KeyEq(a, b) ==
    \/ IsInstanceInt(a) /\ IsInstanceInt(b) /\ IntValue(a) = IntValue(b)
    \/ IsInstanceStr(a) /\ IsInstanceStr(b) /\ a.v = b.v

\* dict.get(key, default)
DictGet(d, key, default) ==
    IF \E p \in d : KeyEq(p[1], key)
    THEN (CHOOSE p \in d : KeyEq(p[1], key))[2]
    ELSE default

\* line 234's test: a code the table calls INTEGER that carries decimal places
IsScaledInteger_IgnoresScale(t, scale) == FALSE

IsScaledInteger(t, scale) == t = TYPE_INTEGER /\ Truthy(scale) /\ scale.v > 0

determine_type(data_type, scale) ==
    IF IsInstanceInt(data_type)
    THEN LET t == DictGet(NUMERIC_TYPES_MAP, data_type, None)
         IN  IF IsScaledInteger(t, scale) THEN TYPE_FLOAT
             ELSE IF Truthy(t) THEN t ELSE TYPE_STRING
    ELSE IF IsInstanceStr(data_type)
    THEN DictGet(TYPES_MAP, Upper(data_type), TYPE_STRING)
    ELSE TYPE_STRING

----------------------------------------------------------------------------
(* Records of what a call did *)

\* an exception object; str(e) is its message
Exc(type, msg) == [type |-> type, msg |-> msg]

StrOf(e) == PyStr(e.msg)

\* one logger call: logger.<level>(fmt, *args)
LogRec(level, fmt, args) == [level |-> level, fmt |-> fmt, args |-> args]

\* one step of a call that returned: a driver or library call and its argument
Ev(op, ok, arg) == [op |-> op, ok |-> ok, arg |-> arg, exc |-> None]

\* a step that raised e
Failed(op, arg, e) == [op |-> op, ok |-> FALSE, arg |-> arg, exc |-> e]

----------------------------------------------------------------------------
(* The libraries the key is resolved with *)

\* os.environ.get(name)
EnvGet(env, name) == IF name.v \in DOMAIN env THEN env[name.v] ELSE None

PemPlain == PyBytes([fmt |-> "PEM", key |-> "K1", pass |-> None])

PemEncrypted == PyBytes([fmt |-> "PEM", key |-> "K1", pass |-> PyBytes(<<"pw1">>)])

NotPem == PyBytes([fmt |-> "junk", key |-> "none", pass |-> None])

B64_PLAIN == PyStr(<<"base64 of PEM K1">>)

B64_ENCRYPTED == PyStr(<<"base64 of PEM K1 encrypted with pw1">>)

B64_NOT_PEM == PyStr(<<"base64 of junk">>)

NOT_B64 == PyStr(<<"text with incorrect padding">>)

\* base64.b64decode(s): the bytes, or binascii.Error
b64decode(s) ==
    CASE s = PyStr(<<>>) -> [ok |-> TRUE, value |-> NotPem]
      [] s = B64_PLAIN -> [ok |-> TRUE, value |-> PemPlain]
      [] s = B64_ENCRYPTED -> [ok |-> TRUE, value |-> PemEncrypted]
      [] s = B64_NOT_PEM -> [ok |-> TRUE, value |-> NotPem]
      [] OTHER -> [ok |-> FALSE, exc |-> Exc("binascii.Error", <<"Incorrect padding">>)]

\* serialization.load_pem_private_key(data, password=..., backend=...)
load_pem_private_key(data, password) ==
    IF data.v.fmt # "PEM"
    THEN [ok |-> FALSE, exc |-> Exc("ValueError", <<"Could not deserialize key data">>)]
    ELSE IF data.v.pass = None
    THEN IF password = None
         THEN [ok |-> TRUE, value |-> data.v.key]
         ELSE [ok |-> FALSE,
               exc |-> Exc("TypeError", <<"Password was given but private key is not encrypted">>)]
    ELSE IF password = None
    THEN [ok |-> FALSE,
          exc |-> Exc("TypeError", <<"Password was not given but private key is encrypted">>)]
    ELSE IF password = data.v.pass
    THEN [ok |-> TRUE, value |-> data.v.key]
    ELSE [ok |-> FALSE, exc |-> Exc("ValueError", <<"Bad decrypt. Incorrect password?">>)]

\* private_key.private_bytes(Encoding.DER, PrivateFormat.PKCS8, NoEncryption())
private_bytes(key) == PyBytes([fmt |-> "DER/PKCS8", key |-> key, pass |-> None])

----------------------------------------------------------------------------
(* _get_connection *)

\* self.configuration.get(name)
ConfigGet(cfg, name) == IF name \in DOMAIN cfg THEN cfg[name] ELSE None

\* lines 107-114
ConnectionParams(cfg) ==
    [account |-> ConfigGet(cfg, "account"),
     user |-> ConfigGet(cfg, "user"),
     warehouse |-> ConfigGet(cfg, "warehouse"),
     database |-> ConfigGet(cfg, "database"),
     schema |-> ConfigGet(cfg, "schema"),
     role |-> ConfigGet(cfg, "role")]

\* line 122: `if not pem_b64`
EnvMissing_OnlyUnset(pem_b64) == pem_b64 = None

EnvMissing(pem_b64) == ~Truthy(pem_b64)

\* line 132: the password handed to the PEM loader
KeyPassword(cfg) ==
    LET passphrase == ConfigGet(cfg, "private_key_pwd")
    IN  IF Truthy(passphrase) THEN Encode(passphrase) ELSE None

\* lines 128-140, the try block: the DER bytes, or the exception raised in it
ProcessKey(cfg, pem_b64) ==
    LET dec == b64decode(pem_b64)
    IN  IF ~dec.ok
        THEN [ok |-> FALSE, exc |-> dec.exc, trace |-> <<Failed("b64decode", None, dec.exc)>>]
        ELSE LET key == load_pem_private_key(dec.value, KeyPassword(cfg))
             IN  IF ~key.ok
                 THEN [ok |-> FALSE, exc |-> key.exc,
                       trace |-> <<Ev("b64decode", TRUE, None),
                                   Failed("load_pem_private_key", None, key.exc)>>]
                 ELSE [ok |-> TRUE, pkb |-> private_bytes(key.value),
                       trace |-> <<Ev("b64decode", TRUE, None),
                                   Ev("load_pem_private_key", TRUE, None),
                                   Ev("private_bytes", TRUE, None)>>]

\* lines 142-144: a failure of the try block is logged and raised again
ExceptKeyError_Swallows(r) ==
    [raised |-> FALSE, exc |-> None, private_key |-> None, trace |-> r.trace,
     log |-> <<LogRec("error", "Private key processing failed: %s", <<StrOf(r.exc)>>)>>]

ExceptKeyError(r) ==
    [raised |-> TRUE, exc |-> r.exc, private_key |-> None, trace |-> r.trace,
     log |-> <<LogRec("error", "Private key processing failed: %s", <<StrOf(r.exc)>>)>>]

\* lines 117-144: the key for the connection, None when no variable is configured
ResolveKey(cfg, env) ==
    LET env_var == ConfigGet(cfg, "private_key_env_var")
        log1 == <<LogRec("error", "Private key env var: %s", <<env_var>>)>>
    IN  IF ~Truthy(env_var)
        THEN [raised |-> FALSE, exc |-> None, private_key |-> None, trace |-> <<>>,
              log |-> log1]
        ELSE LET pem_b64 == EnvGet(env, env_var)
             IN  IF EnvMissing(pem_b64)
                 THEN [raised |-> TRUE,
                       exc |-> Exc("Exception",
                                   <<"Environment variable ">> \o env_var.v \o <<" not set">>),
                       private_key |-> None,
                       trace |-> <<Failed("environ", env_var,
                                          Exc("Exception", <<"Environment variable ">>
                                                           \o env_var.v \o <<" not set">>))>>,
                       log |-> log1 \o
                           <<LogRec("error", "Environment variable %s not set!", <<env_var>>)>>]
                 ELSE LET log2 == log1 \o
                              <<LogRec("error", "Private key loaded: %d bytes",
                                       <<PyInt(Len(pem_b64.v))>>)>>
                          r == ProcessKey(cfg, pem_b64)
                      IN  IF r.ok
                          THEN [raised |-> FALSE, exc |-> None, private_key |-> r.pkb,
                                trace |-> r.trace,
                                log |-> log2 \o
                                    <<LogRec("error", "Private key processed successfully", <<>>)>>]
                          ELSE LET x == ExceptKeyError(r)
                               IN  [x EXCEPT !.log = log2 \o x.log]

\* the driver's behaviour during one call: the step that raises (if any) and the
\* message of what it raises, whether cursor.close() raises, what the cursor yields
DriverError(d) == Exc("snowflake.connector.errors.Error", d.msg)

\* lines 146-153
Connect(params, d) ==
    LET log1 == <<LogRec("error", "Attempting Snowflake connection...", <<>>)>>
    IN  IF d.failAt = "connect"
        THEN [raised |-> TRUE, exc |-> DriverError(d), conn |-> "none",
              trace |-> <<Failed("connect", PyDict(params), DriverError(d))>>,
              log |-> log1 \o
                  <<LogRec("error", "Snowflake connection failed: %s", <<StrOf(DriverError(d))>>)>>]
        ELSE [raised |-> FALSE, exc |-> None, conn |-> "open",
              trace |-> <<Ev("connect", TRUE, PyDict(params))>>,
              log |-> log1 \o <<LogRec("error", "Snowflake connection successful!", <<>>)>>]

\* line 140: params["private_key"] = pkb
WithPrivateKey(params, pkb) == [k \in DOMAIN params \cup {"private_key"} |->
                                   IF k = "private_key" THEN pkb ELSE params[k]]

_get_connection(cfg, env, d) ==
    LET log0 == <<LogRec("error", "=== SNOWFLAKE CONNECTION ATTEMPT ===", <<>>),
                  LogRec("error", "Configuration: %s", <<PyDict(cfg)>>)>>
        params == ConnectionParams(cfg)
        log1 == log0 \o <<LogRec("error", "Connection params: %s", <<PyDict(params)>>)>>
    IN  Only({ IF k.raised
               THEN [raised |-> TRUE, exc |-> k.exc, conn |-> "none", trace |-> k.trace,
                     log |-> log1 \o k.log]
               ELSE Only({ [c EXCEPT !.trace = k.trace \o c.trace,
                                     !.log = log1 \o k.log \o c.log] :
                           c \in {Connect(IF k.private_key = None THEN params
                                          ELSE WithPrivateKey(params, k.private_key), d)} }) :
               k \in {ResolveKey(cfg, env)} })

----------------------------------------------------------------------------
(* What the handlers share *)

\* a str literal
S(text) == PyStr(<<text>>)

\* what a call leaves behind
Result(kind, value, exc, tr, lg, cn, cu) ==
    [kind |-> kind, value |-> value, exc |-> exc, trace |-> tr, log |-> lg,
     conn |-> cn, cursor |-> cu]

\* connection.cursor(), lines 160, 175, 210
OpenCursor(d) ==
    IF d.failAt = "cursor"
    THEN [ok |-> FALSE, exc |-> DriverError(d),
          trace |-> <<Failed("cursor", None, DriverError(d))>>]
    ELSE [ok |-> TRUE, exc |-> None, trace |-> <<Ev("cursor", TRUE, None)>>]

CloseError == Exc("snowflake.connector.errors.Error", <<"cursor close failed">>)

\* the finally blocks, lines 190-192, 165-167, 224-226: cursor.close() and then
\* connection.close(); an exception of the first leaves the second unreached
CloseBoth(d) ==
    IF d.closeFails
    THEN [raised |-> TRUE, exc |-> CloseError, conn |-> "open", cursor |-> "open",
          trace |-> <<Failed("cursor.close", None, CloseError)>>]
    ELSE [raised |-> FALSE, exc |-> None, conn |-> "closed", cursor |-> "closed",
          trace |-> <<Ev("cursor.close", TRUE, None), Ev("connection.close", TRUE, None)>>]

\* BaseSQLQueryRunner.fetch_columns on <<name, type>> pairs with distinct names
fetch_columns(columns) ==
    [i \in 1..Len(columns) |->
        [name |-> columns[i][1], friendly_name |-> columns[i][1], type |-> columns[i][2]]]

Min(a, b) == IF a < b THEN a ELSE b

\* dict(zip(names, r)): the later of two equal names wins
DictZip(names, r) ==
    LET n == Min(Len(names), Len(r))
    IN  [k \in {names[i] : i \in 1..n} |->
            r[CHOOSE i \in 1..n : names[i] = k /\ \A j \in i+1..n : names[j] # k]]

\* [dict(zip((c["name"] for c in columns), r)) for r in cursor]
RowDicts(columns, rows) ==
    LET names == [i \in 1..Len(columns) |-> columns[i].name]
    IN  [i \in 1..Len(rows) |-> DictZip(names, rows[i])]

\* redash.utils.json_dumps(data, default=str)
json_dumps(data) == [t |-> "json", v |-> data]

----------------------------------------------------------------------------
(* run_query *)

\* line 173: query[:100] if len(query) > 100 else query
QueryHead(query) == IF Len(query.v) > 100 THEN PyStr(SubSeq(query.v, 1, 100)) ELSE query

\* line 179: the generic type of a result column
RunQueryColumnType(col) == DictGet(TYPES_MAP, col.type_code, TYPE_STRING)

\* lines 186-189: the except clause
RunQueryExcept(e, tr) ==
    [json_data |-> None, error |-> StrOf(e), trace |-> tr,
     log |-> <<LogRec("exception", "Snowflake query failed", <<>>)>>]

\* lines 176-189: the try block with its except clause
RunQueryTry(query, d) ==
    LET e == DriverError(d)
        executed == <<Ev("execute", TRUE, query)>>
        described == executed \o <<Ev("columns", TRUE, PyList(d.description))>>
        drained == described \o <<Ev("rows", TRUE, PyList(d.rows))>>
        columns == fetch_columns(
                       [i \in 1..Len(d.description) |->
                           <<d.description[i].name, RunQueryColumnType(d.description[i])>>])
        rows == RowDicts(columns, d.rows)
        data == [columns |-> columns, rows |-> rows]
    IN  CASE d.failAt = "execute" ->
               RunQueryExcept(e, <<Failed("execute", query, e)>>)
          [] d.failAt = "columns" ->
               RunQueryExcept(e, executed \o <<Failed("columns", None, e)>>)
          [] d.failAt = "rows" ->
               RunQueryExcept(e, described \o <<Failed("rows", None, e)>>)
          [] d.failAt = "dumps" ->
               RunQueryExcept(e, drained \o <<Failed("json_dumps", None, e)>>)
          [] OTHER ->
               [json_data |-> json_dumps(data), error |-> None,
                trace |-> drained \o <<Ev("json_dumps", TRUE, None)>>,
                log |-> <<LogRec("info", "Snowflake query successful, returned %d rows",
                                 <<PyInt(Len(rows))>>)>>]

run_query(cfg, env, query, d) ==
    LET log0 == <<LogRec("info", "Running Snowflake query: %s", <<QueryHead(query)>>)>>
    IN  Only({ IF gc.raised
               THEN Result("raised", None, gc.exc, gc.trace, log0 \o gc.log, gc.conn, "none")
               ELSE IF ~cur.ok
               THEN Result("raised", None, cur.exc, gc.trace \o cur.trace, log0 \o gc.log,
                           gc.conn, "none")
               ELSE IF fin.raised
               THEN Result("raised", None, fin.exc,
                           gc.trace \o cur.trace \o body.trace \o fin.trace,
                           log0 \o gc.log \o body.log, fin.conn, fin.cursor)
               ELSE Result("returned", PyTuple(<<body.json_data, body.error>>), None,
                           gc.trace \o cur.trace \o body.trace \o fin.trace,
                           log0 \o gc.log \o body.log, fin.conn, fin.cursor) :
               gc \in {_get_connection(cfg, env, d)},     \* line 174
               cur \in {OpenCursor(d)},                   \* line 175
               body \in {RunQueryTry(query, d)},          \* lines 176-189
               fin \in {CloseBoth(d)} })                  \* lines 190-192

----------------------------------------------------------------------------
(* test_connection *)

\* lines 168-170: the except clause logs and raises again
TestConnectionExcept_Swallows(e, tr, lg, cn, cu) ==
    Result("returned", None, None, tr,
           lg \o <<LogRec("error", "Snowflake connection test failed: %s", <<StrOf(e)>>)>>,
           cn, cu)

TestConnectionExcept(e, tr, lg, cn, cu) ==
    Result("raised", None, e, tr,
           lg \o <<LogRec("error", "Snowflake connection test failed: %s", <<StrOf(e)>>)>>,
           cn, cu)

\* cursor.fetchone(): the next row, None when there is none
FetchOne(rows) == IF rows = <<>> THEN None ELSE PyTuple(rows[1])

\* lines 161-164, the inner try block
TestConnectionTry(d) ==
    LET stmt == S("SELECT 1")
    IN  CASE d.failAt = "execute" ->
               [ok |-> FALSE, trace |-> <<Failed("execute", stmt, DriverError(d))>>, log |-> <<>>]
          [] d.failAt = "rows" ->
               [ok |-> FALSE,
                trace |-> <<Ev("execute", TRUE, stmt), Failed("rows", None, DriverError(d))>>,
                log |-> <<>>]
          [] OTHER ->
               [ok |-> TRUE,
                trace |-> <<Ev("execute", TRUE, stmt), Ev("rows", TRUE, PyList(d.rows))>>,
                log |-> <<LogRec("info", "Snowflake connection test successful: %s",
                                 <<FetchOne(d.rows)>>)>>]

test_connection(cfg, env, d) ==
    LET log0 == <<LogRec("info", "Testing Snowflake connection...", <<>>)>>
    IN  Only({ IF gc.raised
               THEN TestConnectionExcept(gc.exc, gc.trace, log0 \o gc.log, gc.conn, "none")
               ELSE IF ~cur.ok
               THEN TestConnectionExcept(cur.exc, gc.trace \o cur.trace, log0 \o gc.log,
                                         gc.conn, "none")
               ELSE IF fin.raised
               THEN TestConnectionExcept(fin.exc,
                                         gc.trace \o cur.trace \o inner.trace \o fin.trace,
                                         log0 \o gc.log \o inner.log, fin.conn, fin.cursor)
               ELSE IF ~inner.ok
               THEN TestConnectionExcept(DriverError(d),
                                         gc.trace \o cur.trace \o inner.trace \o fin.trace,
                                         log0 \o gc.log, fin.conn, fin.cursor)
               ELSE Result("returned", None, None,
                           gc.trace \o cur.trace \o inner.trace \o fin.trace,
                           log0 \o gc.log \o inner.log, fin.conn, fin.cursor) :
               gc \in {_get_connection(cfg, env, d)},     \* line 159
               cur \in {OpenCursor(d)},                   \* line 160
               inner \in {TestConnectionTry(d)},          \* lines 161-164
               fin \in {CloseBoth(d)} })                  \* lines 165-167

----------------------------------------------------------------------------
(* get_schema *)

\* lines 196-205
_parse_results(d) ==
    LET columns == fetch_columns(
                       [i \in 1..Len(d.description) |->
                           <<d.description[i].name,
                             determine_type(d.description[i].type_code,
                                            d.description[i].scale)>>])
    IN  [columns |-> columns, rows |-> RowDicts(columns, d.rows)]

\* lines 213-218: the USE statement
UseStatement(database, schema) ==
    IF Truthy(schema)
    THEN PyStr(<<"USE ">> \o database.v \o <<".">> \o schema.v)
    ELSE PyStr(<<"USE ">> \o database.v)

\* lines 212-223, the try block: the parsed data, or the exception raised in it
RunWithoutWarehouseTry(cfg, query, d) ==
    LET e == DriverError(d)
        use == UseStatement(cfg["database"], ConfigGet(cfg, "schema"))
        used == <<Ev("execute", TRUE, use)>>
        executed == used \o <<Ev("execute", TRUE, query)>>
        described == executed \o <<Ev("columns", TRUE, PyList(d.description))>>
    IN  CASE "database" \notin DOMAIN cfg ->
               [ok |-> FALSE, exc |-> Exc("KeyError", <<"'database'">>),
                trace |-> <<Failed("configuration[]", S("database"),
                                   Exc("KeyError", <<"'database'">>))>>]
          [] d.failAt = "use" ->
               [ok |-> FALSE, exc |-> e, trace |-> <<Failed("execute", use, e)>>]
          [] d.failAt = "execute" ->
               [ok |-> FALSE, exc |-> e, trace |-> used \o <<Failed("execute", query, e)>>]
          [] d.failAt = "columns" ->
               [ok |-> FALSE, exc |-> e, trace |-> executed \o <<Failed("columns", None, e)>>]
          [] d.failAt = "rows" ->
               [ok |-> FALSE, exc |-> e, trace |-> described \o <<Failed("rows", None, e)>>]
          [] OTHER ->
               [ok |-> TRUE, exc |-> None, data |-> _parse_results(d),
                trace |-> described \o <<Ev("rows", TRUE, PyList(d.rows))>>]

\* lines 208-228: <<data, error>>, or what it raises
_run_query_without_warehouse(cfg, env, query, d) ==
    Only({ IF gc.raised
           THEN Result("raised", None, gc.exc, gc.trace, gc.log, gc.conn, "none")
           ELSE IF ~cur.ok
           THEN Result("raised", None, cur.exc, gc.trace \o cur.trace, gc.log, gc.conn, "none")
           ELSE IF fin.raised
           THEN Result("raised", None, fin.exc,
                       gc.trace \o cur.trace \o body.trace \o fin.trace,
                       gc.log, fin.conn, fin.cursor)
           ELSE IF ~body.ok
           THEN Result("raised", None, body.exc,
                       gc.trace \o cur.trace \o body.trace \o fin.trace,
                       gc.log, fin.conn, fin.cursor)
           ELSE Result("returned", PyTuple(<<body.data, None>>), None,
                       gc.trace \o cur.trace \o body.trace \o fin.trace,
                       gc.log, fin.conn, fin.cursor) :
           gc \in {_get_connection(cfg, env, d)},             \* line 209
           cur \in {OpenCursor(d)},                           \* line 210
           body \in {RunWithoutWarehouseTry(cfg, query, d)},  \* lines 212-223
           fin \in {CloseBoth(d)} })                          \* lines 224-226

\* line 251: the rows that describe a column
IsColumnRow(row) == row[S("kind")] = S("COLUMN")

\* line 252
QualifiedName(row) == FormatDotted(row[S("schema_name")], row[S("table_name")])

\* lines 253-255: the table's entry gets the column, a new table a new entry at the end
AddColumn_NewestFirst(schema, table_name, column_name) ==
    IF \E i \in 1..Len(schema) : schema[i].name = table_name
    THEN [i \in 1..Len(schema) |->
             IF schema[i].name = table_name
             THEN [schema[i] EXCEPT !.columns = <<column_name>> \o @]
             ELSE schema[i]]
    ELSE <<[name |-> table_name, columns |-> <<column_name>>]>> \o schema

AddColumn(schema, table_name, column_name) ==
    IF \E i \in 1..Len(schema) : schema[i].name = table_name
    THEN [i \in 1..Len(schema) |->
             IF schema[i].name = table_name
             THEN [schema[i] EXCEPT !.columns = Append(@, column_name)]
             ELSE schema[i]]
    ELSE Append(schema, [name |-> table_name, columns |-> <<column_name>>])

\* lines 249-256: the dict `schema` in insertion order, which list(schema.values())
\* keeps; upTo[i] is the dict after the first i rows
BuildSchema(rows) ==
    LET upTo[i \in 0..Len(rows)] ==
            IF i = 0 THEN <<>>
            ELSE IF IsColumnRow(rows[i])
            THEN AddColumn(upTo[i-1], QualifiedName(rows[i]), rows[i][S("column_name")])
            ELSE upTo[i-1]
    IN  upTo[Len(rows)]

get_schema(cfg, env, d) ==
    Only({ IF r.kind = "raised" THEN r
           ELSE IF r.value.v[2] # None
           THEN [r EXCEPT !.kind = "raised", !.value = None,
                          !.exc = Exc("Exception", <<"Failed getting schema.">>)]
           ELSE Only({ [r EXCEPT !.value = PyList(BuildSchema(rows))] :
                       rows \in {r.value.v[1].rows} }) :
           r \in {_run_query_without_warehouse(cfg, env, S("SHOW COLUMNS"), d)} })

----------------------------------------------------------------------------
(* The adapters, the environments and the driver behaviours explored *)

FullConfiguration(env_var, pwd) ==
    [account |-> S("acme"), user |-> S("svc_redash"), warehouse |-> S("WH"),
     database |-> S("DB"), schema |-> S("PUBLIC"), role |-> S("ANALYST"),
     private_key_env_var |-> env_var, private_key_pwd |-> pwd]

Without(cfg, field) == [k \in DOMAIN cfg \ {field} |-> cfg[k]]

\* lines 75-83: the fields of the configuration schema
ConfigurationFields ==
    {"account", "user", "warehouse", "database", "role", "schema",
     "private_key_env_var", "private_key_pwd"}

\* line 95
RequiredFields == {"account", "user", "warehouse", "database", "private_key_env_var"}

KEY_VAR == S("SNOWFLAKE_KEY")

Configurations ==
    {FullConfiguration(ev, pw) : ev \in {PyStr(<<>>), KEY_VAR},
                                 pw \in {PyStr(<<>>), S("pw1"), S("pw2")}}
    \cup {Without(FullConfiguration(KEY_VAR, S("pw1")), f) : f \in ConfigurationFields}

Environments ==
    {<<>>} \cup {[k \in {KEY_VAR.v} |-> val] :
                    val \in {PyStr(<<>>), B64_PLAIN, B64_ENCRYPTED, B64_NOT_PEM, NOT_B64}}

Messages == {<<>>, <<"SQL compilation error">>}

Queries == {S("SELECT 1"), S("SELECT * FROM T")}

\* a column of cursor.description: col[0], col[1] and col[5]
Column(name, type_code, scale) == [name |-> name, type_code |-> type_code, scale |-> scale]

NUMBER == PyStr(<<"N","U","M","B","E","R">>)

TEXT == PyStr(<<"T","E","X","T">>)

\* what the cursor yields for a query: the connector reports a type by its numeric
\* code (0 is FIXED, 2 is TEXT); SELECT 1 is one FIXED column of scale 0 in one row
QueryResults(query) ==
    IF query = S("SELECT 1")
    THEN {[description |-> <<Column(S("1"), PyInt(0), PyInt(0))>>, rows |-> << <<PyInt(1)>> >>]}
    ELSE {[description |-> desc, rows |-> rows] :
            desc \in {<<Column(S("ID"), PyInt(0), PyInt(0)), Column(S("NAME"), PyInt(2), None)>>,
                      <<Column(S("PRICE"), PyInt(0), PyInt(2)), Column(S("NAME"), TEXT, None)>>,
                      <<Column(S("PRICE"), NUMBER, PyInt(2))>>},
            rows \in {<<>>, << <<PyInt(1), S("a")>> >>,
                      << <<PyInt(1), S("a")>>, <<PyInt(2), S("b")>> >>}}

RunQueryBehaviours(query) ==
    {[failAt |-> f, msg |-> m, closeFails |-> c, description |-> r.description, rows |-> r.rows] :
        f \in {"none", "connect", "cursor", "execute", "columns", "rows", "dumps"},
        m \in Messages, c \in BOOLEAN, r \in QueryResults(query)}

TestConnectionBehaviours ==
    {[failAt |-> f, msg |-> m, closeFails |-> c, description |-> r.description, rows |-> r.rows] :
        f \in {"none", "connect", "cursor", "execute", "rows"},
        m \in Messages, c \in BOOLEAN, r \in QueryResults(S("SELECT 1"))}

\* SHOW COLUMNS: the columns of its result the adapter reads, all text
ShowColumnsDescription ==
    <<Column(S("table_name"), PyInt(2), None), Column(S("schema_name"), PyInt(2), None),
      Column(S("column_name"), PyInt(2), None), Column(S("kind"), PyInt(2), None)>>

\* rows of SHOW COLUMNS: <<table_name, schema_name, column_name, kind>>; an
\* identifier is spelled by characters, and a quoted identifier may hold a dot
ShowColumnsRows ==
    { <<PyStr(<<"T","1">>), PyStr(<<"S">>), S("colA"), S("COLUMN")>>,
      <<PyStr(<<"T","2">>), PyStr(<<"S">>), S("colB"), S("COLUMN")>>,
      <<PyStr(<<"T","2">>), PyStr(<<"S">>), S("colC"), S("COLUMN")>>,
      <<PyStr(<<"T","1">>), PyStr(<<"S">>), S("colV"), S("VIRTUAL_COLUMN")>>,
      <<PyStr(<<"X",".","T","1">>), PyStr(<<"S">>), S("colA"), S("COLUMN")>>,
      <<PyStr(<<"T","1">>), PyStr(<<"S",".","X">>), S("colB"), S("COLUMN")>> }

GetSchemaBehaviours ==
    {[failAt |-> "none", msg |-> <<>>, closeFails |-> c,
      description |-> ShowColumnsDescription, rows |-> rows] :
        c \in BOOLEAN, rows \in SeqsUpTo(ShowColumnsRows, MaxRows)}
    \cup
    {[failAt |-> f, msg |-> m, closeFails |-> c,
      description |-> ShowColumnsDescription, rows |-> <<>>] :
        f \in {"connect", "cursor", "use", "execute", "columns", "rows"},
        m \in Messages, c \in BOOLEAN}

DataTypes ==
    {PyInt(n) : n \in -1..MaxTypeCode}
    \cup {PyBool(TRUE), PyBool(FALSE), None, PyFloat("1.5")}
    \cup {NUMBER, TEXT, PyStr(<<"n","u","m","b","e","r">>), PyStr(<<"T","e","x","t">>),
          PyStr(<<"t","i","m","e","s","t","a","m","p","_","n","t","z">>),
          PyStr(<<"D","a","t","e">>), PyStr(<<"i","n","t">>),
          PyStr(<<"B","O","O","L","E","A","N">>),
          PyStr(<<"V","A","R","I","A","N","T">>), PyStr(<<"0">>), PyStr(<<>>)}

Scales == {None} \cup {PyInt(n) : n \in -1..MaxScale}

----------------------------------------------------------------------------
(* The state machine *)

NoCall == [name |-> "none"]

NoOutcome == [kind |-> "none", value |-> None, exc |-> None]

Init ==
    /\ configuration \in Configurations
    /\ environ \in Environments
    /\ pc = "idle"
    /\ call = NoCall
    /\ outcome = NoOutcome
    /\ trace = <<>>
    /\ log = <<>>
    /\ conn = "none"
    /\ cursor = "none"
    /\ dt_in = [data_type |-> None, scale |-> None]
    /\ dt_out = None

\* the call c ends with r
Finish(c, r) ==
    /\ pc' = "done"
    /\ call' = c
    /\ outcome' = [kind |-> r.kind, value |-> r.value, exc |-> r.exc]
    /\ trace' = r.trace
    /\ log' = r.log
    /\ conn' = r.conn
    /\ cursor' = r.cursor
    /\ UNCHANGED <<configuration, environ, dt_in, dt_out>>

RunQuery ==
    /\ pc = "idle"
    /\ \E query \in Queries : \E d \in RunQueryBehaviours(query) :
       \E r \in {run_query(configuration, environ, query, d)} :
          Finish([name |-> "run_query", query |-> query], r)

TestConnection ==
    /\ pc = "idle"
    /\ \E d \in TestConnectionBehaviours :
       \E r \in {test_connection(configuration, environ, d)} :
          Finish([name |-> "test_connection"], r)

GetSchema ==
    /\ pc = "idle"
    /\ \E d \in GetSchemaBehaviours :
       \E r \in {get_schema(configuration, environ, d)} :
          Finish([name |-> "get_schema"], r)

\* the host takes the outcome; nothing of the call survives in the adapter
Return ==
    /\ pc = "done"
    /\ pc' = "idle"
    /\ call' = NoCall
    /\ outcome' = NoOutcome
    /\ trace' = <<>>
    /\ log' = <<>>
    /\ conn' = "none"
    /\ cursor' = "none"
    /\ UNCHANGED <<configuration, environ, dt_in, dt_out>>

Next == RunQuery \/ TestConnection \/ GetSchema \/ Return

Spec == Init /\ [][Next]_vars

\* determine_type on its own: the arguments are drawn at the start
InitTypes ==
    /\ configuration = FullConfiguration(KEY_VAR, PyStr(<<>>))
    /\ environ = <<>>
    /\ pc = "idle"
    /\ call = NoCall
    /\ outcome = NoOutcome
    /\ trace = <<>>
    /\ log = <<>>
    /\ conn = "none"
    /\ cursor = "none"
    /\ dt_in \in [data_type : DataTypes, scale : Scales]
    /\ dt_out = None

DetermineType ==
    /\ call = NoCall
    /\ call' = [name |-> "determine_type"]
    /\ dt_out' = determine_type(dt_in.data_type, dt_in.scale)
    /\ UNCHANGED <<configuration, environ, pc, outcome, trace, log, conn, cursor, dt_in>>

NextTypes == DetermineType

SpecTypes == InitTypes /\ [][NextTypes]_vars

----------------------------------------------------------------------------
(* What the claims speak of *)

Done(name) == pc = "done" /\ call.name = name

\* the call took the step op, and it returned (ok) or raised (~ok)
Stepped(op, ok) == \E i \in 1..Len(trace) : trace[i].op = op /\ trace[i].ok = ok

Invoked(op) == \E i \in 1..Len(trace) : trace[i].op = op

SomeStepFailed == \E i \in 1..Len(trace) : ~trace[i].ok

ExecutionPhase == {"execute", "columns", "rows", "json_dumps"}

\* the configured key variable is named, and the environment holds no text for it
KeyVariableNamed ==
    /\ "private_key_env_var" \in DOMAIN configuration
    /\ configuration.private_key_env_var.v # <<>>

KeyVariableUnsetOrEmpty ==
    /\ KeyVariableNamed
    /\ \/ configuration.private_key_env_var.v \notin DOMAIN environ
       \/ environ[configuration.private_key_env_var.v].v = <<>>

KeyVariableSet == KeyVariableNamed /\ ~KeyVariableUnsetOrEmpty

KeyText == environ[configuration.private_key_env_var.v]

Passphrase ==
    IF "private_key_pwd" \in DOMAIN configuration
    THEN configuration.private_key_pwd.v ELSE <<>>

\* C1: once the connection is open, the connection and the cursor (if one was
\* obtained) are closed when run_query, test_connection or get_schema ends,
\* however it ends
C1_HandlesReleased ==
    (pc = "done" /\ Stepped("connect", TRUE))
        => /\ conn = "closed"
           /\ Stepped("cursor", TRUE) => cursor = "closed"

\* C2: with the named key variable unset or empty, run_query and test_connection
\* raise "Environment variable ... not set" and never call the driver's connect
C2_UnsetKeyVariable ==
    (pc = "done" /\ call.name \in {"run_query", "test_connection"} /\ KeyVariableUnsetOrEmpty)
        => /\ outcome.kind = "raised"
           /\ outcome.exc.type = "Exception"
           /\ outcome.exc.msg = <<"Environment variable ", "SNOWFLAKE_KEY", " not set">>
           /\ ~Invoked("connect")

C2_Witness ==
    /\ Done("run_query")
    /\ KeyVariableNamed
    /\ configuration.private_key_env_var.v \in DOMAIN environ
    /\ KeyText.v = <<>>
    /\ outcome.kind = "raised"

\* C3: run_query never raises when a step of the execution phase fails: it returns
\* (None, the driver's non-empty message); on success it returns (envelope, None);
\* in every return exactly one of the two is None
C3_RunQueryReturnsErrors ==
    Done("run_query")
        => /\ (\E i \in 1..Len(trace) : trace[i].op \in ExecutionPhase /\ ~trace[i].ok)
                => /\ outcome.kind = "returned"
                   /\ outcome.value.v[1] = None
                   /\ outcome.value.v[2].t = "str"
                   /\ outcome.value.v[2].v # <<>>
                   /\ \E i \in 1..Len(trace) :
                         /\ ~trace[i].ok
                         /\ outcome.value.v[2].v = trace[i].exc.msg
           /\ (Stepped("json_dumps", TRUE) /\ outcome.kind = "returned")
                => outcome.value.v[1].t = "json" /\ outcome.value.v[2] = None
           /\ outcome.kind = "returned"
                => (outcome.value.v[1] = None) # (outcome.value.v[2] = None)

\* a logged argument that is key material or a secret of the configuration
IsSecret(a) ==
    \/ a.t = "bytes"
    \/ a.t = "dict" /\ "private_key" \in DOMAIN a.v
    \/ a.t = "dict" /\ "private_key_pwd" \in DOMAIN a.v /\ a.v.private_key_pwd.v # <<>>
    \/ a.t = "str" /\ a.v # <<>> /\ a.v = Passphrase
    \/ a.t = "str" /\ a.v # <<>> /\ \E k \in DOMAIN environ : a = environ[k]

\* C4: no log record of a call holds key material or a secret configuration value
C4_NoSecretInLog ==
    \A i \in 1..Len(log) : \A j \in 1..Len(log[i].args) : ~IsSecret(log[i].args[j])

\* C5: with a required configuration field absent, no call reaches the driver's
\* connect or execute
C5_NoExecutionWithoutRequiredFields ==
    (pc = "done" /\ ~(RequiredFields \subseteq DOMAIN configuration))
        => ~Invoked("connect") /\ ~Invoked("execute")

\* the scale rule on a column descriptor
ScaleRule(col) ==
    IF col.scale # None /\ col.scale.v > 0 THEN TYPE_FLOAT ELSE TYPE_INTEGER

\* C6: run_query("SELECT 1"), nothing failing, returns (envelope, None) with one
\* row and one column, whose type is INTEGER or FLOAT by the scale rule
C6_SelectOne ==
    (Done("run_query") /\ call.query = S("SELECT 1")
        /\ Stepped("connect", TRUE) /\ ~SomeStepFailed)
        => /\ outcome.kind = "returned"
           /\ outcome.value.v[2] = None
           /\ Len(outcome.value.v[1].v.columns) = 1
           /\ Len(outcome.value.v[1].v.rows) = 1
           /\ \E i \in 1..Len(trace) :
                 /\ trace[i].op = "columns"
                 /\ outcome.value.v[1].v.columns[1].type = ScaleRule(trace[i].arg.v[1])

\* the entry of a lookup table for a key, None without one
Entry(table, key) == DictGet(table, key, None)

\* two tags that differ at most in the case of their letters
SameIgnoringCase(a, b) ==
    /\ Len(a.v) = Len(b.v)
    /\ \A i \in 1..Len(a.v) : UpperChar(a.v[i]) = UpperChar(b.v[i])

\* C7: determine_type is total into the six generic types; "NUMBER" is FLOAT and
\* "TEXT" is STRING; a numeric code whose entry is INTEGER is INTEGER with scale 0
\* or None and FLOAT with scale > 0; any other known code is its entry whatever the
\* scale; a str tag is looked up ignoring case; all else is STRING
C7_DetermineType ==
    call.name = "determine_type"
        => LET tag == dt_in.data_type
               scale == dt_in.scale
           IN  /\ dt_out \in GenericTypes
               /\ tag = NUMBER => dt_out = TYPE_FLOAT
               /\ tag = TEXT => dt_out = TYPE_STRING
               /\ (tag.t = "int" /\ Entry(NUMERIC_TYPES_MAP, tag) = TYPE_INTEGER)
                    => /\ (scale = None \/ scale.v = 0) => dt_out = TYPE_INTEGER
                       /\ (scale # None /\ scale.v > 0) => dt_out = TYPE_FLOAT
               /\ (tag.t = "int" /\ Entry(NUMERIC_TYPES_MAP, tag) \notin {None, TYPE_INTEGER})
                    => dt_out = Entry(NUMERIC_TYPES_MAP, tag)
               /\ tag.t = "str"
                    => \A p \in TYPES_MAP : SameIgnoringCase(tag, p[1]) => dt_out = p[2]
               /\ (tag.t = "int" /\ Entry(NUMERIC_TYPES_MAP, tag) = None) => dt_out = TYPE_STRING
               /\ (tag.t = "str" /\ \A p \in TYPES_MAP : ~SameIgnoringCase(tag, p[1]))
                    => dt_out = TYPE_STRING
               /\ tag.t \notin {"int", "bool", "str"} => dt_out = TYPE_STRING

C7_Witness ==
    /\ call.name = "determine_type"
    /\ dt_in.data_type = PyInt(0)
    /\ dt_in.scale = PyInt(2)
    /\ dt_out = TYPE_FLOAT

\* C8: test_connection and get_schema raise whatever fails in them, and return no
\* error tuple; get_schema returns no schema when a step of the introspection fails
C8_FailuresPropagate ==
    (pc = "done" /\ call.name \in {"test_connection", "get_schema"})
        => /\ SomeStepFailed => (outcome.kind = "raised" /\ outcome.value = None
                             /\ outcome.exc # None)
           /\ outcome.kind = "returned"
                => /\ outcome.exc = None
                   /\ call.name = "test_connection" => outcome.value = None
                   /\ call.name = "get_schema" => outcome.value.t = "list"

C8_Witness ==
    /\ Done("get_schema")
    /\ \E i \in 1..Len(trace) :
          trace[i].op = "execute" /\ ~trace[i].ok /\ trace[i].arg = S("SHOW COLUMNS")
    /\ outcome.kind = "raised"

\* the rows SHOW COLUMNS yielded in the call: <<table, schema, column, kind>>
IntrospectionRows ==
    LET i == CHOOSE i \in 1..Len(trace) : trace[i].op = "rows"
    IN  SelectSeq(trace[i].arg.v, LAMBDA r : r[4] = S("COLUMN"))

\* a table by its (schema_name, table_name) pair, and by its qualified name
PairOf(r) == <<r[2], r[1]>>

NameOf(r) == r[2].v \o <<".">> \o r[1].v

\* the entries expected of the COLUMN rows cr when key[i] tells the table of cr[i]:
\* one per table in the order of first appearance, its columns in row order
ExpectedSchema(cr, key) ==
    LET rowNumbers == [i \in 1..Len(cr) |-> i]
        first == SelectSeq(rowNumbers, LAMBDA i : \A j \in 1..(i-1) : key[j] # key[i])
        ColumnsOf(k) ==
            LET mine == SelectSeq(rowNumbers, LAMBDA i : key[i] = k)
            IN  [n \in 1..Len(mine) |-> cr[mine[n]][3]]
    IN  [n \in 1..Len(first) |->
            [name |-> PyStr(NameOf(cr[first[n]])), columns |-> ColumnsOf(key[first[n]])]]

\* C9 as stated: one entry per distinct (schema_name, table_name) pair of a COLUMN
\* row, in the order of first appearance, with the table's columns in row order
C9_OneEntryPerPair ==
    (Done("get_schema") /\ outcome.kind = "returned")
        => LET cr == IntrospectionRows
           IN  outcome.value.v = ExpectedSchema(cr, [i \in 1..Len(cr) |-> PairOf(cr[i])])

\* C9 as amended: one entry per distinct qualified name schema_name.table_name of a
\* COLUMN row, in the order of first appearance, with the columns in row order
C9_OneEntryPerQualifiedName ==
    (Done("get_schema") /\ outcome.kind = "returned")
        => LET cr == IntrospectionRows
           IN  outcome.value.v = ExpectedSchema(cr, [i \in 1..Len(cr) |-> NameOf(cr[i])])

\* T1(colA) and T2(colB, colC) give two entries
C9_Witness ==
    /\ Done("get_schema")
    /\ outcome.kind = "returned"
    /\ outcome.value.v =
          << [name |-> PyStr(<<"S", ".", "T", "1">>), columns |-> <<S("colA")>>],
             [name |-> PyStr(<<"S", ".", "T", "2">>), columns |-> <<S("colB"), S("colC")>>] >>

\* the key cannot be resolved: not base64, or encrypted with another passphrase
\* than the configured one (or with none configured)
KeyUnresolvable ==
    /\ KeyVariableSet
    /\ \/ KeyText = NOT_B64
       \/ KeyText = B64_ENCRYPTED /\ Passphrase # <<"pw1">>

\* C10: with the key variable configured and set, connect is called only after the
\* key was resolved and carries the unencrypted DER/PKCS8 key; when the key cannot
\* be resolved the call raises and connect is never called
C10_ConnectAfterKey ==
    (pc = "done" /\ KeyVariableSet)
        => /\ \A i \in 1..Len(trace) : trace[i].op = "connect"
                => /\ \E j \in 1..(i-1) : trace[j].op = "private_bytes" /\ trace[j].ok
                   /\ "private_key" \in DOMAIN trace[i].arg.v
                   /\ trace[i].arg.v.private_key.t = "bytes"
                   /\ trace[i].arg.v.private_key.v.fmt = "DER/PKCS8"
                   /\ trace[i].arg.v.private_key.v.pass = None
           /\ KeyUnresolvable
                => /\ outcome.kind = "raised"
                   /\ outcome.exc.type \in {"binascii.Error", "ValueError", "TypeError"}
                   /\ ~Invoked("connect")

C10_Witness ==
    /\ Done("run_query")
    /\ KeyVariableSet
    /\ KeyText = B64_ENCRYPTED
    /\ Passphrase = <<"pw2">>
    /\ outcome.kind = "raised"
    /\ ~Invoked("connect")

=============================================================================
